---------------------------- MODULE Spec2Model ----------------------------
(***************************************************************************)
(* Birthday-wish bot: the browser client's gatekeeper (public/script.js)   *)
(* and the relay server (server.js and its two earlier variants kept in   *)
(* the repository, unnamed/part_000 and unnamed/part_001).                  *)
(*                                                                         *)
(* Strings are sequences of one-character strings, so that trim,           *)
(* toLowerCase and includes are computed character by character.            *)
(***************************************************************************)
EXTENDS Integers, Sequences, FiniteSets, TLC

(***************************************************************************)
(* Bounds of the model.                                                    *)
(***************************************************************************)
\* Inputs the user submits in one client session (blank ones not counted).
MaxTurns == 5
\* POST /api/chat requests the server receives in one run.
MaxRequests == 2
\* Ticks of the database clock in one run.
MaxClock == 2

(***************************************************************************)
(* Strings                                                                 *)
(***************************************************************************)
UpperLetters ==
    <<"A","B","C","D","E","F","G","H","I","J","K","L","M","N","O","P","Q","R","S","T","U","V","W","X","Y","Z">>

LowerLetters ==
    <<"a","b","c","d","e","f","g","h","i","j","k","l","m","n","o","p","q","r","s","t","u","v","w","x","y","z">>

WhiteSpace == {" ", "\t", "\n"}

Alphabet ==
    {UpperLetters[i] : i \in 1..26} \cup {LowerLetters[i] : i \in 1..26}
    \cup WhiteSpace \cup {"[", "]"}

LowerOf ==
    [c \in Alphabet |->
        IF \E i \in 1..26 : UpperLetters[i] = c
        THEN LowerLetters[CHOOSE i \in 1..26 : UpperLetters[i] = c]
        ELSE c]

UpperOf ==
    [c \in Alphabet |->
        IF \E i \in 1..26 : LowerLetters[i] = c
        THEN UpperLetters[CHOOSE i \in 1..26 : LowerLetters[i] = c]
        ELSE c]

LowerChar(c) == LowerOf[c]

UpperChar(c) == UpperOf[c]

\* String.prototype.toLowerCase
toLowerCase(s) == [i \in 1..Len(s) |-> LowerChar(s[i])]

\* String.prototype.toUpperCase
toUpperCase(s) == [i \in 1..Len(s) |-> UpperChar(s[i])]

RECURSIVE TrimStart(_)
TrimStart(s) ==
    IF s # <<>> /\ Head(s) \in WhiteSpace THEN TrimStart(Tail(s)) ELSE s

RECURSIVE TrimEnd(_)
TrimEnd(s) ==
    IF s # <<>> /\ s[Len(s)] \in WhiteSpace
    THEN TrimEnd(SubSeq(s, 1, Len(s) - 1))
    ELSE s

\* String.prototype.trim
trim(s) == TrimEnd(TrimStart(s))

\* String.prototype.includes
includes(s, k) ==
    \E i \in 0..(Len(s) - Len(k)) : SubSeq(s, i + 1, i + Len(k)) = k

(***************************************************************************)
(* script.js: the challenges                                               *)
(***************************************************************************)
\* prompts has four entries; only their indices matter here.
PromptsLength == 4

answers ==
    << {<<"s","t","a","r","t">>},
       {<<"[","C","O","F","F","E","E"," ","S","H","O","P"," ","K","E","Y","W","O","R","D","]">>,
        <<"[","C","O","F","F","E","E"," ","S","H","O","P"," ","A","L","T","]">>},
       {<<"[","M","O","V","I","E"," ","T","I","T","L","E"," ","K","E","Y","W","O","R","D","]">>,
        <<"[","M","O","V","I","E"," ","T","I","T","L","E"," ","A","L","T","]">>},
       {<<"[","F","I","N","A","L"," ","P","A","S","S","W","O","R","D"," ","K","E","Y","W","O","R","D","]">>} >>

\* answers.length (stage is 0-indexed: answers[stage] of the code is answers[stage + 1] here)
AnswersLength == Len(answers)

K == AnswersLength

\* Mutant: the keyword is compared as written, without keyword.toLowerCase().
isCorrect_KeywordNotLowered(normalizedInput, currentAnswers) ==
    \E keyword \in currentAnswers : includes(normalizedInput, keyword)

\* currentAnswers.some(keyword => normalizedInput.includes(keyword.toLowerCase()))
isCorrect(normalizedInput, currentAnswers) ==
    \E keyword \in currentAnswers : includes(normalizedInput, toLowerCase(keyword))

\* Mutant: stage advances by two.
NextStage_SkipOne(s) == s + 2

\* stage++
NextStage(s) == s + 1

(***************************************************************************)
(* Values the user can have in the input box when submitting.              *)
(***************************************************************************)
Banana == <<"b","a","n","a","n","a">>

Start == <<"s","t","a","r","t">>

CoffeeAlt == <<"[","C","O","F","F","E","E"," ","S","H","O","P"," ","A","L","T","]">>

MovieKeyword ==
    <<"[","M","O","V","I","E"," ","T","I","T","L","E"," ","K","E","Y","W","O","R","D","]">>

FinalKeyword ==
    <<"[","F","I","N","A","L"," ","P","A","S","S","W","O","R","D"," ","K","E","Y","W","O","R","D","]">>

BlankInputs == {<<>>, <<" ">>, <<" ","\t">>}

\* Wrong answers, and accepted answers as written, in another case, padded
\* with white space, and inside a longer text.
RawInputs ==
    BlankInputs
    \cup {Banana, <<"s","t","a","r">>}
    \cup {Start, <<" ">> \o toUpperCase(Start) \o <<"\t">>, <<"x">> \o Start \o <<"y">>}
    \cup {CoffeeAlt, toLowerCase(CoffeeAlt)}
    \cup {<<" ">> \o MovieKeyword, <<"x">> \o toLowerCase(MovieKeyword) \o <<"y">>}
    \cup {toLowerCase(FinalKeyword), FinalKeyword \o <<" ">>}

(***************************************************************************)
(* State                                                                   *)
(***************************************************************************)
VARIABLES
    \* ---- client (script.js) ----
    stage,              \* let stage
    botTypingElement,   \* let botTypingElement: 0 is null, else an element id
    chatBox,            \* children of #chat-box, in order: [kind, id]
    userInputDisabled,  \* userInput.disabled
    sendButtonDisabled, \* sendButton.disabled
    greeting,           \* start-up timers: "t1", "t2" pending, or "done"
    reveal,             \* final-reveal timers: "none", "image", "final" pending, or "done"
    fetch,              \* the fetch in flight: [pending, body]
    nextId,             \* ids of created typing elements
    turns,              \* inputs processed so far
    last,               \* the last submission: raw value, stage before, outcome
    settled,            \* how the last fetch settled: "none", "reply", "noReply", "throw"
    \* ---- server (server.js, unnamed/part_000, unnamed/part_001) ----
    variant,            \* which of the three server files runs
    server,             \* "starting", "listening" or "exited"
    db,                 \* let db: TRUE once it holds a connection object
    messages,           \* rows of the messages table, in insertion order
    reqs,               \* POST /api/chat requests: handler position and locals
    clock,              \* the database clock, read by the timestamp default
    admin               \* the last answer of GET /api/admin/conversations

clientVars ==
    <<stage, botTypingElement, chatBox, userInputDisabled, sendButtonDisabled,
      greeting, reveal, fetch, nextId, turns, last, settled>>

serverVars == <<variant, server, db, messages, reqs, clock, admin>>

vars == <<clientVars, serverVars>>

NoBody == [kind |-> "none", input |-> <<>>, prompt |-> 0]

\* No fetch in flight.  `req` is the server's request the fetch became,
\* 0 as long as it has not reached a server.
NoFetch == [pending |-> FALSE, body |-> NoBody, req |-> 0]

Msg(kind) == [kind |-> kind, id |-> 0]

\* addMessage / addImageMessage: chatBox.appendChild
addMessage(box, kind) == Append(box, Msg(kind))

\* element.remove(): a no-op when the element is no longer in the box
removeElement(box, id) == SelectSeq(box, LAMBDA e : ~(e.kind = "typing" /\ e.id = id))

InitClient ==
    /\ stage = 0
    /\ botTypingElement = 0
    /\ chatBox = <<Msg("welcome")>>
    /\ userInputDisabled = FALSE
    /\ sendButtonDisabled = FALSE
    /\ greeting = "t1"
    /\ reveal = "none"
    /\ fetch = NoFetch
    /\ nextId = 1
    /\ turns = 0
    /\ last = [raw |-> <<>>, before |-> 0, outcome |-> "None", fetched |-> FALSE]
    /\ settled = "none"


(***************************************************************************)
(* script.js: processInput                                                 *)
(***************************************************************************)
Typing(id) == [kind |-> "typing", id |-> id]

\* The instruction sent as `message` to POST /api/chat.
Body(kind, input, prompt) == [kind |-> kind, input |-> input, prompt |-> prompt]

\* Lines 90-91 and 103-109: what processInput decides for the value `raw`
\* of the input box at stage s.
gatekeeper(s, raw) ==
    LET input == trim(raw) IN
    IF input = <<>> THEN "Rejected"
    ELSE IF s >= 0 /\ s < AnswersLength
         THEN IF isCorrect(toLowerCase(input), answers[s + 1])
              THEN "Advance"
              ELSE "Retry"
         ELSE "PassThrough"

\* Mutant: the instruction for a correct answer embeds the prompt of the
\* stage that was just left.
geminiInput_StalePrompt(outcome, input, s) ==
    CASE outcome = "Advance" -> Body("correct", input, s - 1)
      [] outcome = "Retry" -> Body("incorrect", input, s)
      [] OTHER -> Body("raw", input, 0)

\* Lines 100, 133 and 136: the message for POST /api/chat, composed with
\* prompts[stage] where s is the value of stage at that point (after
\* stage++ for a correct answer); the input itself outside the stages.
geminiInput(outcome, input, s) ==
    CASE outcome = "Advance" -> Body("correct", input, s)
      [] outcome = "Retry" -> Body("incorrect", input, s)
      [] OTHER -> Body("raw", input, 0)

\* gatekeeper and trim over the inputs of the model, computed once.
decisions == [s \in 0..(K + 2) |-> [raw \in RawInputs |-> gatekeeper(s, raw)]]

trimmed == [raw \in RawInputs |-> trim(raw)]

\* Lines 89-149: the synchronous part of processInput, up to `await fetch`
\* or to the early return of the final reveal.
processInput(raw) ==
    LET input    == trimmed[raw]
        outcome  == decisions[stage][raw]
        typingId == nextId
        shown    == Append(addMessage(chatBox, "user"), Typing(typingId))
        newStage == IF outcome = "Advance" THEN NextStage(stage) ELSE stage
        final    == outcome = "Advance" /\ newStage = PromptsLength
    IN
    /\ UNCHANGED serverVars
    /\ last' = [raw |-> raw, before |-> stage, outcome |-> outcome,
                fetched |-> outcome # "Rejected" /\ ~final]
    /\ IF outcome = "Rejected"
       THEN \* line 91: return
            UNCHANGED <<stage, botTypingElement, chatBox, userInputDisabled,
                        sendButtonDisabled, greeting, reveal, fetch, nextId, turns, settled>>
       ELSE /\ turns < MaxTurns
            /\ turns' = turns + 1
            /\ settled' = "none"
            /\ nextId' = nextId + 1
            /\ botTypingElement' = typingId
            /\ userInputDisabled' = TRUE
            /\ sendButtonDisabled' = TRUE
            /\ stage' = newStage
            /\ UNCHANGED greeting
            /\ IF final
               THEN \* lines 113-130: the final reveal, no relay request
                    /\ chatBox' = addMessage(removeElement(shown, typingId), "confirm")
                    /\ reveal' = "image"
                    /\ UNCHANGED fetch
               ELSE \* lines 133, 136, 100: the instruction; lines 142-149: fetch
                    /\ chatBox' = shown
                    /\ UNCHANGED reveal
                    /\ fetch' = [pending |-> TRUE,
                                 body |-> geminiInput(outcome, input, newStage),
                                 req |-> 0]

\* Mutant: the click listener runs although the button is disabled.
ClickSend_WhileDisabled == \E raw \in RawInputs : processInput(raw)

\* Line 172: sendButton click listener (a disabled button fires no click).
ClickSend ==
    /\ ~sendButtonDisabled
    /\ \E raw \in RawInputs : processInput(raw)

\* Mutant: the keypress listener runs although the input is disabled.
PressEnter_WhileDisabled == \E raw \in RawInputs : processInput(raw)

\* Lines 173-177: Enter in the input box (a disabled input takes no keys).
PressEnter ==
    /\ ~userInputDisabled
    /\ \E raw \in RawInputs : processInput(raw)

\* Mutant: a relay request that fails takes the stage back to what it was
\* before the submission.
FetchSettled_Rollback ==
    /\ fetch.pending
    /\ \E outcome \in {"reply", "noReply", "throw"} :
         /\ chatBox' = addMessage(
                       IF botTypingElement # 0
                       THEN removeElement(chatBox, botTypingElement)
                       ELSE chatBox,
                       "bot")
         /\ settled' = outcome
         /\ stage' = IF outcome = "throw" THEN last.before ELSE stage
    /\ fetch' = NoFetch
    /\ userInputDisabled' = FALSE
    /\ sendButtonDisabled' = FALSE
    /\ UNCHANGED <<botTypingElement, greeting, reveal, nextId, turns, last, serverVars>>

\* Mutant: the controls are re-enabled inside the try block, so not when
\* the fetch or response.json() rejects.
Settle_LockedOnThrow(outcome) ==
    /\ chatBox' = addMessage(
                     IF botTypingElement # 0
                     THEN removeElement(chatBox, botTypingElement)
                     ELSE chatBox,
                     "bot")
    /\ settled' = outcome
    /\ fetch' = NoFetch
    /\ userInputDisabled' = (outcome = "throw")
    /\ sendButtonDisabled' = (outcome = "throw")
    /\ UNCHANGED <<stage, botTypingElement, greeting, reveal, nextId, turns, last>>

\* Lines 150-167: the rest of processInput once the fetch settles.
\* "reply": data.botResponse is set; "noReply": a body without botResponse;
\* "throw": fetch or response.json() rejected.
Settle(outcome) ==
    /\ chatBox' = addMessage(
                     IF botTypingElement # 0
                     THEN removeElement(chatBox, botTypingElement)
                     ELSE chatBox,
                     "bot")
    /\ settled' = outcome
    /\ fetch' = NoFetch
    /\ userInputDisabled' = FALSE
    /\ sendButtonDisabled' = FALSE
    /\ UNCHANGED <<stage, botTypingElement, greeting, reveal, nextId, turns, last>>

\* The fetch settles, in whichever way (the server left open).
FetchSettled ==
    /\ fetch.pending
    /\ \E outcome \in {"reply", "noReply", "throw"} : Settle(outcome)
    /\ UNCHANGED serverVars

\* Lines 181-182: the first start-up timer shows a typing indicator.
GreetingTimer1 ==
    /\ greeting = "t1"
    /\ greeting' = "t2"
    /\ botTypingElement' = nextId
    /\ chatBox' = Append(chatBox, Typing(nextId))
    /\ nextId' = nextId + 1
    /\ UNCHANGED <<stage, userInputDisabled, sendButtonDisabled, reveal, fetch, turns, last, settled, serverVars>>

\* Lines 183-186: the second start-up timer posts prompts[0].
GreetingTimer2 ==
    /\ greeting = "t2"
    /\ greeting' = "done"
    /\ chatBox' = addMessage(
                     IF botTypingElement # 0
                     THEN removeElement(chatBox, botTypingElement)
                     ELSE chatBox,
                     "prompt0")
    /\ UNCHANGED <<stage, botTypingElement, userInputDisabled, sendButtonDisabled,
                   reveal, fetch, nextId, turns, last, settled, serverVars>>

\* Mutant: the image timer posts the final message as well, ahead of the image.
RevealImageTimer_FinalFirst ==
    /\ reveal = "image"
    /\ reveal' = "final"
    /\ chatBox' = addMessage(addMessage(chatBox, "final"), "image")
    /\ UNCHANGED <<stage, botTypingElement, userInputDisabled, sendButtonDisabled,
                   greeting, fetch, nextId, turns, last, settled, serverVars>>

\* Lines 119-122: first reveal timer, the image.
RevealImageTimer ==
    /\ reveal = "image"
    /\ reveal' = "final"
    /\ chatBox' = addMessage(chatBox, "image")
    /\ UNCHANGED <<stage, botTypingElement, userInputDisabled, sendButtonDisabled,
                   greeting, fetch, nextId, turns, last, settled, serverVars>>

\* Mutant: the controls are unlocked after the final message.
RevealFinalTimer_Unlock ==
    /\ reveal = "final"
    /\ reveal' = "done"
    /\ chatBox' = addMessage(chatBox, "final")
    /\ userInputDisabled' = FALSE
    /\ sendButtonDisabled' = FALSE
    /\ UNCHANGED <<stage, botTypingElement, greeting, fetch, nextId, turns, last, settled, serverVars>>

\* Lines 122-127: second reveal timer, the final message; controls locked.
RevealFinalTimer ==
    /\ reveal = "final"
    /\ reveal' = "done"
    /\ chatBox' = addMessage(chatBox, "final")
    /\ userInputDisabled' = TRUE
    /\ sendButtonDisabled' = TRUE
    /\ UNCHANGED <<stage, botTypingElement, greeting, fetch, nextId, turns, last, settled, serverVars>>

(***************************************************************************)
(* The server: server.js, and the variants unnamed/part_000 (SQLite) and   *)
(* unnamed/part_001 (SQLite, Railway port).                                *)
(***************************************************************************)
Variants == {"server_js", "part_000", "part_001"}

Requests == 1..MaxRequests

\* req.body of a POST /api/chat: `message` may be missing; `sender` too.
Hi == <<"h","i">>

RequestBodies ==
    { [hasMessage |-> FALSE, message |-> <<>>, sender |-> "none"],
      [hasMessage |-> TRUE, message |-> <<>>, sender |-> "user"],
      [hasMessage |-> TRUE, message |-> <<" ", " ">>, sender |-> "none"],
      [hasMessage |-> TRUE, message |-> Hi, sender |-> "user"] }

\* Outcomes of chat.sendMessage: 200 is a reply, 0 an error without status.
UpstreamStatuses == {200, 500, 503, 429, 0}

\* Mutant: one attempt more.
retries_Four == 3 + 1

\* sendMessageWithRetry(message, retries = 3)
retries == 3

\* Mutant: status 429 is retried too.
isTransient_With429(status) == status = 503 \/ status = 500 \/ status = 429

\* error.status === 503 || error.status === 500
isTransient(status) == status = 503 \/ status = 500

\* Mutant: the delay already doubles before the first retry.
backoffDelay_Doubled(i) == 2 ^ (i + 1)

\* (2 ** i) * 1000 ms, in seconds
backoffDelay(i) == 2 ^ i

\* Whether a transient failure at attempt i is followed by a sleep:
\* `if (i < retries - 1)` in server.js and part_000, always in part_001.
sleepsAfter(v, i) == v = "part_001" \/ i < retries - 1

\* Mutant: only an absent message is refused.
noMessage_OnlyUndefined(body) == ~body.hasMessage

\* !message
noMessage(body) == ~body.hasMessage \/ body.message = <<>>

\* The sender saveMessage is given for the user's record.
userSender(v, body) ==
    IF v = "part_001" /\ body.sender # "none" THEN body.sender ELSE "User"

\* The sender of the failure record written in the catch block.
systemSender(v) == IF v = "part_001" THEN "System" ELSE "System Error"

\* No GET /api/admin/conversations answered yet.
NoAnswer == [status |-> 0, body |-> <<>>, db |-> FALSE, queried |-> FALSE]

FreeRequest ==
    [pc |-> "free", body |-> [hasMessage |-> FALSE, message |-> <<>>, sender |-> "none"],
     i |-> 0, calls |-> 0, delays |-> <<>>, slept |-> <<>>, sleepFor |-> 0,
     lastStatus |-> -1, gotReply |-> FALSE, thrown |-> "none", response |-> 0,
     ts |-> 0]

InitServer ==
    /\ variant \in Variants
    /\ server = "starting"
    /\ db = FALSE
    /\ messages = <<>>
    /\ reqs = [r \in Requests |-> FreeRequest]
    /\ clock = 0
    /\ admin = NoAnswer

Init == InitClient /\ InitServer

\* initializeDatabase().then(() => app.listen(...))
\* server.js: db is set before the connection is tried, and a failure is
\* rethrown, so the server never listens.  part_000 and part_001: db is set
\* only when open() succeeds, the failure is logged, and the server listens.
initializeDatabase ==
    /\ server = "starting"
    /\ \E ok \in BOOLEAN :
         IF variant = "server_js"
         THEN /\ db' = TRUE
              /\ server' = IF ok THEN "listening" ELSE "exited"
         ELSE /\ db' = ok
              /\ server' = "listening"
    /\ UNCHANGED <<variant, messages, reqs, clock, admin, clientVars>>

\* db('messages').insert / db.run('INSERT ...'): a row for request r; its
\* timestamp column takes the default, the clock as the insert was issued.
Row(sender, r, text, ts) ==
    [sender |-> sender, req |-> r, text |-> text, timestamp |-> ts]

\* saveMessage as it settles: nothing is written when db is not set;
\* otherwise the insert writes the row, or fails and saveMessage throws.
\* Returns through `wrote` whether the row is to be appended.
saveOutcomes == IF db THEN {"written", "failed"} ELSE {"skipped"}

\* The catch block of POST /api/chat: saveMessage(System...) is awaited.
Caught(req, what) ==
    [req EXCEPT !.pc = "awaitSaveSystem", !.thrown = what, !.ts = clock]

\* chat.sendMessage is called for attempt req.i, after the sleep just ended.
Attempt(req) ==
    [req EXCEPT !.pc = "awaitUpstream", !.calls = @ + 1,
                !.delays = Append(@, req.sleepFor), !.sleepFor = 0]

\* Lines 109-116: the handler's start for a request with this body:
\* validation, then saveMessage('User', message) is awaited.
Arrive(r, body) ==
    reqs' = [reqs EXCEPT ![r] =
               IF noMessage(body)
               THEN [@ EXCEPT !.pc = "done", !.body = body, !.response = 400]
               ELSE [@ EXCEPT !.pc = "awaitSaveUser", !.body = body,
                               !.ts = clock]]

\* app.post('/api/chat'): the request arrives; validation, then
\* saveMessage('User', message) is awaited.
PostChat(r) ==
    /\ server = "listening"
    /\ reqs[r].pc = "free"
    /\ \A q \in Requests : q < r => reqs[q].pc # "free"
    /\ \E body \in RequestBodies : Arrive(r, body)
    /\ UNCHANGED <<variant, server, db, messages, clock, admin, clientVars>>

\* saveMessage('User', message) settles; on success sendMessageWithRetry
\* issues attempt 0.
SaveUserSettled(r) ==
    /\ server = "listening"
    /\ reqs[r].pc = "awaitSaveUser"
    /\ \E o \in saveOutcomes :
         /\ messages' = IF o = "written"
                        THEN Append(messages,
                                    Row(userSender(variant, reqs[r].body), r, "message",
                                        reqs[r].ts))
                        ELSE messages
         /\ reqs' = [reqs EXCEPT ![r] =
                       IF o = "failed" THEN Caught(@, "store") ELSE Attempt(@)]
    /\ UNCHANGED <<variant, server, db, clock, admin, clientVars>>

\* The body of the retry loop after chat.sendMessage settles at attempt i.
UpstreamSettled(r) ==
    /\ server = "listening"
    /\ reqs[r].pc = "awaitUpstream"
    /\ \E status \in UpstreamStatuses :
         LET req == [reqs[r] EXCEPT !.lastStatus = status] IN
         reqs' = [reqs EXCEPT ![r] =
                    IF status = 200
                    THEN \* return result.text; saveMessage('Bot', ...) is awaited
                         [req EXCEPT !.pc = "awaitSaveBot", !.gotReply = TRUE,
                                     !.ts = clock]
                    ELSE IF isTransient(status)
                    THEN IF sleepsAfter(variant, req.i)
                         THEN [req EXCEPT !.pc = "awaitSleep",
                                          !.sleepFor = backoffDelay(req.i),
                                          !.slept = Append(@, backoffDelay(req.i))]
                         ELSE IF req.i + 1 < retries
                         THEN Attempt([req EXCEPT !.i = @ + 1])
                         ELSE Caught([req EXCEPT !.i = @ + 1], "unavailable")
                    ELSE \* throw error
                         Caught(req, "original")]
    /\ UNCHANGED <<variant, server, db, messages, clock, admin, clientVars>>

\* The backoff timer fires: i++, then the next attempt or the loop's end.
SleepDone(r) ==
    LET req == reqs[r] IN
    /\ server = "listening"
    /\ req.pc = "awaitSleep"
    /\ reqs' = [reqs EXCEPT ![r] =
                  IF req.i + 1 < retries
                  THEN Attempt([req EXCEPT !.i = @ + 1])
                  ELSE Caught([req EXCEPT !.i = @ + 1], "unavailable")]
    /\ UNCHANGED <<variant, server, db, messages, clock, admin, clientVars>>

\* saveMessage('Bot', botResponseText) settles; res.json({ botResponse }).
SaveBotSettled(r) ==
    /\ server = "listening"
    /\ reqs[r].pc = "awaitSaveBot"
    /\ \E o \in saveOutcomes :
         /\ messages' = IF o = "written"
                        THEN Append(messages, Row("Bot", r, "reply", reqs[r].ts))
                        ELSE messages
         /\ reqs' = [reqs EXCEPT ![r] =
                       IF o = "failed"
                       THEN Caught(@, "store")
                       ELSE [@ EXCEPT !.pc = "done", !.response = 200]]
    /\ UNCHANGED <<variant, server, db, clock, admin, clientVars>>

\* saveMessage('System Error', ...) settles in the catch block; then
\* res.status(500).  When it throws, the handler's promise rejects: Express 5
\* answers 500 from its default error handler; Express 4 sends nothing and
\* leaves the rejection unhandled, on which Node.js ends the process.
SaveSystemSettled(r) ==
    /\ server = "listening"
    /\ reqs[r].pc = "awaitSaveSystem"
    /\ \E o \in saveOutcomes :
         /\ messages' = IF o = "written"
                        THEN Append(messages, Row(systemSender(variant), r, "failure",
                                                 reqs[r].ts))
                        ELSE messages
         /\ IF o = "failed"
            THEN \E answer \in {0, 500} :
                    /\ reqs' = [reqs EXCEPT ![r] = [@ EXCEPT !.pc = "rejected",
                                                             !.response = answer]]
                    /\ server' = IF answer = 0 THEN "exited" ELSE server
            ELSE /\ reqs' = [reqs EXCEPT ![r] = [@ EXCEPT !.pc = "done",
                                                          !.response = 500]]
                 /\ UNCHANGED server
    /\ UNCHANGED <<variant, db, clock, admin, clientVars>>

\* Time passes at the database.
Tick ==
    /\ clock < MaxClock
    /\ clock' = clock + 1
    /\ UNCHANGED <<variant, server, db, messages, reqs, admin, clientVars>>

\* Mutant: the rows come back in the order they were written.
orderBy_Unsorted(rows) == rows

\* .orderBy('timestamp', 'asc') / ORDER BY timestamp ASC
orderBy(rows) == SortSeq(rows, LAMBDA a, b : a.timestamp < b.timestamp)

\* Whether the admin handler tests `!db` before it queries: server.js and
\* part_000 do, part_001 does not.
checksDb(v) == v # "part_001"

\* app.get('/api/admin/conversations'): 503 when db is not set and the
\* handler tests it; without the test db.all on undefined throws inside the
\* try and the catch answers 500.  Otherwise the query is run: its rows in
\* timestamp order are the answer, or it fails and the catch answers 500.
GetAdminConversations ==
    /\ server = "listening"
    /\ IF ~db
       THEN admin' = [status |-> IF checksDb(variant) THEN 503 ELSE 500,
                      body |-> <<>>, db |-> FALSE, queried |-> FALSE]
       ELSE \E ok \in BOOLEAN :
               admin' = [status |-> IF ok THEN 200 ELSE 500,
                         body |-> IF ok THEN orderBy(messages) ELSE <<>>,
                         db |-> TRUE, queried |-> TRUE]
    /\ UNCHANGED <<variant, server, db, messages, reqs, clock, clientVars>>

\* No handler is between two awaits.
Quiet == \A q \in Requests : reqs[q].pc \in {"free", "done", "rejected"}

NextServer ==
    \/ initializeDatabase
    \/ \E r \in Requests : Quiet /\ PostChat(r)
    \/ \E r \in Requests : SaveUserSettled(r)
    \/ \E r \in Requests : UpstreamSettled(r)
    \/ \E r \in Requests : SleepDone(r)
    \/ \E r \in Requests : SaveBotSettled(r)
    \/ \E r \in Requests : SaveSystemSettled(r)

\* The server with its requests served one after the other.
SpecServer == Init /\ [][NextServer]_vars

NextOverlap ==
    \/ initializeDatabase
    \/ \E r \in Requests : PostChat(r)
    \/ \E r \in Requests : SaveUserSettled(r)
    \/ \E r \in Requests : UpstreamSettled(r)
    \/ \E r \in Requests : SleepDone(r)
    \/ \E r \in Requests : SaveBotSettled(r)
    \/ \E r \in Requests : SaveSystemSettled(r)

\* The server with requests that overlap.
SpecOverlap == Init /\ [][NextOverlap]_vars

NextAdmin ==
    \/ initializeDatabase
    \/ Tick
    \/ GetAdminConversations
    \/ \E r \in Requests : PostChat(r)
    \/ \E r \in Requests : SaveUserSettled(r)
    \/ \E r \in Requests : UpstreamSettled(r) /\ reqs'[r].pc # "awaitSleep"
    \/ \E r \in Requests : SaveBotSettled(r)
    \/ \E r \in Requests : SaveSystemSettled(r)

\* What the run-time guarantees the server: the start-up runs, and every
\* awaited call of a handler (insert, sendMessage, backoff timer) settles.
ServerFairness ==
    /\ WF_vars(initializeDatabase)
    /\ \A r \in Requests :
          /\ WF_vars(SaveUserSettled(r))
          /\ WF_vars(UpstreamSettled(r))
          /\ WF_vars(SleepDone(r))
          /\ WF_vars(SaveBotSettled(r))
          /\ WF_vars(SaveSystemSettled(r))

\* The server, requests one after the other, with every awaited call
\* settling.
SpecServerLive == Init /\ [][NextServer]_vars /\ ServerFairness

\* The server with overlapping requests, its clock and the admin endpoint.
\* The upstream service replies or fails for good at the first attempt: a
\* retry issues no insert, it only lets more time pass between two of them.
SpecAdmin == Init /\ [][NextAdmin]_vars

NextClient ==
    \/ ClickSend
    \/ PressEnter
    \/ FetchSettled
    \/ GreetingTimer1
    \/ GreetingTimer2
    \/ RevealImageTimer
    \/ RevealFinalTimer

\* The client alone, the relay's answers left open; the server stays as
\* it starts.
InitClientOnly == Init /\ variant = "server_js"

SpecClient == InitClientOnly /\ [][NextClient]_vars

\* The client with what its run-time guarantees: a timer that was set
\* fires, a fetch settles; and a user who keeps sending while the button
\* lets them.
ClientFairness ==
    /\ WF_vars(GreetingTimer1)
    /\ WF_vars(GreetingTimer2)
    /\ WF_vars(RevealImageTimer)
    /\ WF_vars(RevealFinalTimer)
    /\ WF_vars(FetchSettled)
    /\ WF_vars(ClickSend)

SpecClientLive == InitClientOnly /\ [][NextClient]_vars /\ ClientFairness

(***************************************************************************)
(* The client and the server together: the client's fetch is the server's  *)
(* request.                                                                *)
(***************************************************************************)
\* Lines 142-149: the JSON body of the client's request.  Its message is
\* the instruction or the input, never empty; the server looks at no more.
fetchBody == [hasMessage |-> TRUE, message |-> Hi, sender |-> "user"]

\* The fetch reaches the listening server and its handler starts.
RequestArrives(r) ==
    /\ fetch.pending
    /\ fetch.req = 0
    /\ server = "listening"
    /\ reqs[r].pc = "free"
    /\ \A q \in Requests : q < r => reqs[q].pc # "free"
    /\ Arrive(r, fetchBody)
    /\ fetch' = [fetch EXCEPT !.req = r]
    /\ UNCHANGED <<stage, botTypingElement, chatBox, userInputDisabled,
                   sendButtonDisabled, greeting, reveal, nextId, turns, last, settled,
                   variant, server, db, messages, clock, admin>>

\* How the client's code takes the server's answer: 200 carries
\* botResponse; the handler's 500 is JSON without it; the 500 of the
\* framework's error handler is no JSON, so response.json() rejects.
fetchOutcome(req) ==
    IF req.response = 200 THEN "reply"
    ELSE IF req.pc = "rejected" THEN "throw"
    ELSE "noReply"

\* The server's answer arrives at the client.
ResponseArrives ==
    /\ fetch.pending
    /\ fetch.req # 0
    /\ reqs[fetch.req].response # 0
    /\ Settle(fetchOutcome(reqs[fetch.req]))
    /\ UNCHANGED serverVars

\* No server process listens (not started yet, or ended): the connection
\* is refused or closed and the fetch rejects.
ConnectionFails ==
    /\ fetch.pending
    /\ server # "listening"
    /\ Settle("throw")
    /\ UNCHANGED serverVars

\* The user of the session starts typing once the greeting is on the
\* screen, and the model has a request left for the next fetch.
SlotFree == greeting = "done" /\ \E r \in Requests : reqs[r].pc = "free"

\* What the user of the session types: nothing but a blank, a wrong
\* answer, the answer of stage 0.
SessionInputs == {<<" ">>, Banana, Start}

NextSession ==
    \/ ClickSend /\ SlotFree /\ last'.raw \in SessionInputs
    \/ PressEnter /\ SlotFree /\ last'.raw \in SessionInputs
    \/ GreetingTimer1
    \/ GreetingTimer2
    \/ \E r \in Requests : RequestArrives(r)
    \/ ResponseArrives
    \/ ConnectionFails
    \/ initializeDatabase
    \/ \E r \in Requests : SaveUserSettled(r)
    \/ \E r \in Requests : UpstreamSettled(r)
    \/ \E r \in Requests : SleepDone(r)
    \/ \E r \in Requests : SaveBotSettled(r)
    \/ \E r \in Requests : SaveSystemSettled(r)

\* The network delivers: a request reaches a listening server, an answer
\* reaches the client, a connection without a server fails.
SessionFairness ==
    /\ ServerFairness
    /\ WF_vars(GreetingTimer1)
    /\ WF_vars(GreetingTimer2)
    /\ \A r \in Requests : WF_vars(RequestArrives(r))
    /\ WF_vars(ResponseArrives)
    /\ WF_vars(ConnectionFails)

\* One client session against server.js.
SpecSession == InitClientOnly /\ [][NextSession]_vars /\ SessionFairness

(***************************************************************************)
(* Claims about the client                                                 *)
(***************************************************************************)
\* The raw value contains, after trimming and in lower case, an accepted
\* answer of stage s in lower case.
ContainsAccepted(raw, s) ==
    \E a \in answers[s + 1] : includes(toLowerCase(trim(raw)), toLowerCase(a))

\* The value in another letter case and with white space added around it.
InputVariants(raw) ==
    UNION { {v, <<" ">> \o v, v \o <<"\t", " ">>, <<"\n">> \o v \o <<" ">>}
            : v \in {raw, toUpperCase(raw), toLowerCase(raw)} }

IsBlank(s) == \A i \in 1..Len(s) : s[i] \in WhiteSpace

\* For each stage below K and each input: whether it contains an accepted
\* answer, and the outcomes the gatekeeper gives for the input's variants.
Accepted == [s \in 0..(K - 1) |-> {raw \in RawInputs : ContainsAccepted(raw, s)}]

VariantOutcomes ==
    [s \in 0..(K - 1) |->
        [raw \in RawInputs |-> {gatekeeper(s, v) : v \in InputVariants(raw)}]]

\* C1: at a stage below K a non-blank input that contains an accepted answer
\* of the stage (any case) gives Advance and stage + 1, any other gives Retry
\* and the same stage; white space around the input and its letter case do
\* not change the outcome.
C1_GatekeeperEvaluation ==
    (last.outcome # "None" /\ last.before < K /\ ~IsBlank(last.raw)) =>
        /\ IF last.raw \in Accepted[last.before]
           THEN last.outcome = "Advance" /\ stage = last.before + 1
           ELSE last.outcome = "Retry" /\ stage = last.before
        /\ VariantOutcomes[last.before][last.raw] = {last.outcome}

\* C1 witness: an upper-case, padded answer advanced a stage.
C1_Witness ==
    /\ last.outcome = "Advance"
    /\ last.raw # trim(last.raw)
    /\ last.raw # toLowerCase(last.raw)
    /\ stage = last.before + 1

\* C2: stage stays within 0..K, and a step leaves it or adds exactly one,
\* the latter only when the submitted input matched the stage's answers.
C2_StageMonotone ==
    /\ [](stage \in 0..K)
    /\ [][\/ stage' = stage
          \/ /\ stage' = stage + 1
             /\ last'.outcome = "Advance"
             /\ last'.before = stage
             /\ last'.raw \in Accepted[stage]]_vars

\* C2 witness: the terminal stage was reached in K accepted answers.
C2_Witness == stage = K /\ turns = K

TerminalSequence ==
    SelectSeq(chatBox, LAMBDA e : e.kind \in {"confirm", "image", "final"})

\* C3: the answer that moves stage to K emits the confirmation, then the
\* image, then the final message, each once, and sends no relay request.
C3_TerminalSequence ==
    /\ stage < K => TerminalSequence = <<>> /\ reveal = "none"
    /\ stage = K =>
         /\ last.outcome = "Advance" /\ last.before = K - 1
         /\ ~last.fetched /\ ~fetch.pending
         /\ reveal \in {"image", "final", "done"}
         /\ TerminalSequence =
               CASE reveal = "image" -> <<Msg("confirm")>>
                 [] reveal = "final" -> <<Msg("confirm"), Msg("image")>>
                 [] OTHER -> <<Msg("confirm"), Msg("image"), Msg("final")>>

\* C3 witness: the whole terminal sequence has been emitted.
C3_Witness == stage = K /\ reveal = "done" /\ Len(TerminalSequence) = 3

\* C4: once stage is K the controls stay disabled and no input is processed.
C4_TerminalOneWay ==
    /\ [](stage = K => userInputDisabled /\ sendButtonDisabled)
    /\ [][stage = K => (stage' = K /\ last' = last /\ turns' = turns)]_vars

\* C4 witness: the reveal has run to its end with the controls locked.
C4_Witness == stage = K /\ reveal = "done" /\ userInputDisabled /\ sendButtonDisabled

(***************************************************************************)
(* Claims about the server                                                 *)
(***************************************************************************)
RowsOf(r) == {k \in 1..Len(messages) : messages[k].req = r}

SystemRowsOf(r) ==
    {k \in RowsOf(r) : messages[k].sender \in {"System", "System Error"}}

\* C5: a send issues at most 3 upstream calls, sleeps 0, 1 and 2 seconds
\* before attempts 0, 1 and 2, and after three transient failures raises the
\* unavailable-after-retries error without a 4th call.
C5_RetryBound ==
    \A r \in Requests :
        LET req == reqs[r] IN
        /\ req.calls <= 3
        /\ Len(req.delays) = req.calls
        /\ \A k \in 1..Len(req.delays) : req.delays[k] = k - 1
        /\ (req.calls = 3 /\ req.lastStatus \in {500, 503}
              /\ req.pc \notin {"awaitUpstream", "awaitSleep"})
             => req.thrown = "unavailable"
        /\ req.thrown = "unavailable" => req.calls = 3

\* C5 witness: three transient failures ended in the unavailable error.
C5_Witness ==
    \E r \in Requests :
        /\ reqs[r].thrown = "unavailable"
        /\ reqs[r].delays = <<0, 1, 2>>
        /\ reqs[r].pc = "done"

\* C6: an upstream failure with a status other than 500 and 503 is rethrown
\* at once: no sleep and no further call follow, and the error is the
\* original one.
C6_NonTransientRethrown ==
    \A r \in Requests :
        LET req == reqs[r] IN
        (req.lastStatus \notin {-1, 200, 500, 503} /\ req.pc # "awaitUpstream") =>
            /\ req.thrown = "original"
            /\ req.pc \in {"awaitSaveSystem", "done", "rejected"}
            /\ req.sleepFor = 0
            /\ Len(req.slept) = req.calls - 1
            /\ ~req.gotReply

\* C6 witness: a non-transient failure came after two transient ones.
C6_Witness ==
    \E r \in Requests :
        /\ reqs[r].lastStatus = 429
        /\ reqs[r].calls = 3
        /\ reqs[r].thrown = "original"

\* C7: a reply obtained after one or two transient failures is what the
\* caller gets: no error status, and no System row for the request.
C7_TransientAbsorbed ==
    \A r \in Requests :
        LET req == reqs[r] IN
        (req.gotReply /\ req.i \in {1, 2}) =>
            /\ req.response \in {0, 200}
            /\ SystemRowsOf(r) = {}

\* C8: when the relay call failed for good, the 5xx answer of the handler is
\* sent only with a System row of the failure in the table.
C8_FailureRecorded ==
    \A r \in Requests :
        LET req == reqs[r] IN
        (req.thrown \in {"original", "unavailable"} /\ req.pc = "done"
           /\ req.response = 500)
            => SystemRowsOf(r) # {}

\* C9: a request without a message, or with an empty one, is answered 400
\* and writes no row and calls the upstream service not once.
C9_MissingMessageRejected ==
    \A r \in Requests :
        LET req == reqs[r] IN
        (req.pc # "free" /\ (~req.body.hasMessage \/ Len(req.body.message) = 0)) =>
            /\ req.pc = "done"
            /\ req.response = 400
            /\ req.calls = 0
            /\ RowsOf(r) = {}

\* C9 witness: an empty message was answered 400 after another request had
\* been served.
C9_Witness ==
    \E r \in Requests :
        /\ reqs[r].body.hasMessage
        /\ reqs[r].body.message = <<>>
        /\ reqs[r].response = 400
        /\ messages # <<>>

\* C10: a blank input is refused before the gatekeeper in the client, and a
\* blank message posted to the server writes no row and causes no call.
C10_BlankRejected ==
    /\ (last.outcome # "None" /\ IsBlank(last.raw)) => last.outcome = "Rejected"
    /\ \A r \in Requests :
          LET req == reqs[r] IN
          (req.pc # "free" /\ req.body.hasMessage /\ IsBlank(req.body.message)) =>
              /\ req.calls = 0
              /\ RowsOf(r) = {}

\* The client's half of C10, which holds.
C10_ClientBlankRejected ==
    /\ (last.outcome # "None" /\ IsBlank(last.raw)) => last.outcome = "Rejected"
    /\ [][IsBlank(last'.raw) /\ last' # last =>
            UNCHANGED <<stage, chatBox, fetch, turns, userInputDisabled>>]_vars


\* The request's rows of one sender.
UserRowsOf(r) ==
    {k \in RowsOf(r) : messages[k].sender \in {"User", "user"}}

BotRowsOf(r) == {k \in RowsOf(r) : messages[k].sender = "Bot"}

\* C11: when the reply was obtained and the insert of the Bot row then
\* fails, the handler still ends with the success response: it is not
\* answered 500 and its promise does not reject.
C11_BotStoreFailureNonFatal ==
    \A r \in Requests :
        LET req == reqs[r] IN
        (req.gotReply /\ req.thrown = "store" /\ req.pc \in {"done", "rejected"}) =>
            /\ req.pc = "done"
            /\ req.response = 200

\* C12: the User row of a request is in the table when its first upstream
\* call is issued, and its Bot row too when the success response is sent.
C12_BothRecordsBeforeReply ==
    \A r \in Requests :
        LET req == reqs[r] IN
        /\ req.calls >= 1 => UserRowsOf(r) # {}
        /\ req.response = 200 =>
              /\ UserRowsOf(r) # {}
              /\ BotRowsOf(r) # {}
              /\ \E u \in UserRowsOf(r) : \A b \in BotRowsOf(r) : u < b

(***************************************************************************)
(* Claims about the client's exchanges with the relay                      *)
(***************************************************************************)
\* C13: the stage is what the local match of the last submission made it,
\* however the relay request settles (reply, answer without a reply,
\* failure): no step taken while the request is in flight, its settling
\* included, changes stage, and an Advance stays.
C13_StageLocal ==
    /\ [](last.outcome # "None" =>
            stage = IF last.outcome = "Advance" THEN last.before + 1 ELSE last.before)
    /\ [][fetch.pending => stage' = stage]_vars

\* C13 witness: the relay request of an accepted answer failed and the
\* stage is the advanced one.
C13_Witness ==
    /\ settled = "throw"
    /\ ~fetch.pending
    /\ last.outcome = "Advance"
    /\ stage = last.before + 1

\* C14: while a relay request is in flight both controls are disabled and
\* processInput is not entered again: the last submission, the number of
\* processed inputs and the request stay as they are until it settles.
C14_OneExchangeInFlight ==
    /\ [](fetch.pending => userInputDisabled /\ sendButtonDisabled)
    /\ [][fetch.pending =>
            /\ last' = last
            /\ turns' = turns
            /\ fetch'.pending => fetch' = fetch]_vars

\* C14 witness: a second exchange is in flight after the first one settled.
C14_Witness ==
    /\ fetch.pending
    /\ turns = 2
    /\ settled = "none"
    /\ userInputDisabled /\ sendButtonDisabled

(***************************************************************************)
(* Claims about overlapping requests and the admin endpoint                *)
(***************************************************************************)
\* Requests whose chat.sendMessage call has not settled yet.
InFlight == {r \in Requests : reqs[r].pc = "awaitUpstream"}

\* C15: at most one sendMessage call on the shared chat object is in
\* flight at any time, and a request that arrived later has no call in
\* flight while an earlier one is still between its first call and its
\* last (asleep in the backoff included).
C15_UpstreamSerialized ==
    /\ Cardinality(InFlight) <= 1
    /\ \A q, r \in Requests :
          (q < r /\ r \in InFlight) => reqs[q].pc \notin {"awaitUpstream", "awaitSleep"}

\* C16: the rows GET /api/admin/conversations answers with are in
\* non-decreasing order of timestamp, whatever the order in which the
\* inserts of overlapping requests were issued and completed.
C16_AdminOrdered ==
    admin.status = 200 =>
        \A i, j \in 1..Len(admin.body) :
            i < j => admin.body[i].timestamp <= admin.body[j].timestamp

\* C16 witness: the table holds its rows out of timestamp order, two of
\* them with the same timestamp, and the answer lists all of them.
C16_Witness ==
    /\ admin.status = 200
    /\ Len(admin.body) = Len(messages)
    /\ \E i, j \in 1..Len(messages) :
          i < j /\ messages[i].timestamp > messages[j].timestamp
    /\ \E i, j \in 1..Len(messages) :
          i < j /\ messages[i].timestamp = messages[j].timestamp

\* C17: a GET /api/admin/conversations that finds db not set is answered
\* 503 without a query; the transcript is answered only with db set.
C17_AdminNotReady ==
    /\ (admin.status # 0 /\ ~admin.db) => (admin.status = 503 /\ ~admin.queried)
    /\ admin.status = 200 => admin.db

(***************************************************************************)
(* Claims about the relay instruction and the backoff                      *)
(***************************************************************************)
\* C18: the message in flight after an Advance from s to s + 1 < K is the
\* answered-correctly instruction with prompts[s + 1], after a Retry at s
\* the answered-incorrectly instruction with prompts[s]; the index is one
\* of the prompts array; and each such turn does send its message.
C18_InstructionPrompt ==
    /\ (last.outcome = "Advance" /\ last.before + 1 < K) => last.fetched
    /\ last.outcome = "Retry" => last.fetched
    /\ fetch.pending =>
         /\ last.outcome = "Advance" =>
               /\ fetch.body.kind = "correct"
               /\ fetch.body.prompt = last.before + 1
               /\ fetch.body.prompt \in 0..(PromptsLength - 1)
         /\ last.outcome = "Retry" =>
               /\ fetch.body.kind = "incorrect"
               /\ fetch.body.prompt = last.before
               /\ fetch.body.prompt \in 0..(PromptsLength - 1)

\* C18 witness: the instruction for the Advance to the last stage below K
\* is in flight, with the last prompt of the array.
C18_Witness ==
    /\ fetch.pending
    /\ last.outcome = "Advance"
    /\ last.before = K - 2
    /\ fetch.body.prompt = PromptsLength - 1

\* C19: every processed input is posted to the server, and the message
\* posted, which the server writes as the User row, is the input itself.
C19_RawInputRecorded ==
    last.outcome \notin {"None", "Rejected"} =>
        /\ last.fetched
        /\ fetch.pending => fetch.body = Body("raw", trimmed[last.raw], 0)

\* C20 as stated: the sleep before attempt i >= 1 is 2^i, none before
\* attempt 0 (delays[k] is the sleep before attempt k - 1).
C20_DelayTwoToTheI ==
    \A r \in Requests :
        \A k \in 1..Len(reqs[r].delays) :
            reqs[r].delays[k] = IF k = 1 THEN 0 ELSE 2 ^ (k - 1)

\* C20 amended: the sleep before attempt i >= 1 is 2^(i - 1), the delay
\* computed from the index of the attempt that failed; none before
\* attempt 0.
C20_DelayTwoToTheIMinusOne ==
    \A r \in Requests :
        /\ Len(reqs[r].delays) = reqs[r].calls
        /\ \A k \in 1..Len(reqs[r].delays) :
              reqs[r].delays[k] = IF k = 1 THEN 0 ELSE 2 ^ (k - 2)

\* C20 witness: a reply came at attempt 2, after sleeps of 1 and 2.
C20_Witness ==
    \E r \in Requests :
        /\ reqs[r].gotReply
        /\ reqs[r].i = 2
        /\ reqs[r].delays = <<0, 1, 2>>

(***************************************************************************)
(* Claims about the terminal session and about progress                    *)
(***************************************************************************)
\* What processInput decides at stage K for each input of the model.
TerminalDecisions == {<<raw, decisions[K][raw]>> : raw \in RawInputs}

\* C21 as stated: once the session is terminal a further message is
\* processed as a pass-through, with the stage unchanged.
C21_PassThroughAfterReveal ==
    (stage = K /\ turns < MaxTurns) ~> (last.outcome = "PassThrough" /\ stage = K)

\* C21 amended: at stage K processInput would send any non-blank input
\* as it is, without a match and without touching stage; but no input
\* reaches it, the controls being disabled from the accepted answer on: no
\* pass-through is ever processed and no request is sent at stage K.
C21_PassThroughUnreachable ==
    /\ \A d \in TerminalDecisions :
          d[2] = IF IsBlank(d[1]) THEN "Rejected" ELSE "PassThrough"
    /\ last.outcome # "PassThrough"
    /\ last.outcome # "None" => last.before < K
    /\ stage = K => ~fetch.pending /\ userInputDisabled /\ sendButtonDisabled

\* C21 witness: the reveal is over, the user has inputs left to submit,
\* and the last processed input is still the accepted final answer.
C21_Witness ==
    /\ stage = K
    /\ reveal = "done"
    /\ turns < MaxTurns
    /\ last.outcome = "Advance"
    /\ userInputDisabled /\ sendButtonDisabled

\* C22: every request that arrived is answered in the end, and once: an
\* answer that was sent is not followed by another.
C22_EveryRequestAnswered ==
    /\ \A r \in Requests : (reqs[r].pc # "free") ~> (reqs[r].response # 0)
    /\ [][\A r \in Requests :
            reqs[r].response # 0 => reqs'[r].response = reqs[r].response]_vars

\* C23: before stage K, controls that were disabled by a submission are
\* enabled again in the end, whatever becomes of the relay request.
C23_ControlsReenabled ==
    ((userInputDisabled \/ sendButtonDisabled) /\ stage < K)
        ~> (~userInputDisabled /\ ~sendButtonDisabled)

\* C23 witness: the handler of the first request ended without an answer
\* and took the server down; the fetch rejected and the controls are
\* enabled.
C23_Witness ==
    /\ turns = 1
    /\ server = "exited"
    /\ \E r \in Requests : reqs[r].pc = "rejected" /\ reqs[r].response = 0
    /\ settled = "throw"
    /\ ~fetch.pending
    /\ ~userInputDisabled /\ ~sendButtonDisabled

\* C24: when both greeting timers have fired and the last exchange has
\* completed, the chat box holds no typing indicator.
C24_NoTypingIndicatorLeft ==
    (greeting = "done" /\ settled # "none" /\ ~fetch.pending) =>
        \A k \in 1..Len(chatBox) : chatBox[k].kind # "typing"

=============================================================================
